---- MODULE Spec2Model ----
(***************************************************************************)
(* Model of the Deployment-Watcher (src/main.py): the retry engine         *)
(* retry(), the command wrapper run_command(), the notifier send_email()   *)
(* and the polling loop of main().                                         *)
(*                                                                         *)
(* A string is a sequence of characters over Chars, a list of strings a    *)
(* sequence of such sequences; Python's None and the empty list, both      *)
(* falsy, are the empty sequence.  One step of the model is one loop test, *)
(* one pass of a try block with its except clause, or one exception        *)
(* handler of the program.  The variables below the line "history" record  *)
(* what the program did; no action reads them except to bound the          *)
(* exploration.                                                            *)
(***************************************************************************)
EXTENDS Integers, Sequences, FiniteSets, TLC

\* ---- bounds of the exploration ----
MaxOut == 2           \* longest captured stdout
MaxCycles == 2        \* polling cycles explored
MaxNoChange == 1      \* retry-substring matches explored per retry() call
MaxMaxAttempts == 2   \* largest --max-attempts
MaxBaseDelay == 2     \* largest --base-delay

\* ---- program constants ----
DefaultInterval == 60 \* --interval, the default of INTERVAL

\* ---- strings ----
Chars == {"a", "b", " "}
Whitespace == {" "}

StringsUpTo(n) == UNION {[1..k -> Chars] : k \in 0..n}

RECURSIVE lstrip(_)
lstrip(s) == IF s # <<>> /\ Head(s) \in Whitespace THEN lstrip(Tail(s)) ELSE s

RECURSIVE rstrip(_)
rstrip(s) ==
    IF s # <<>> /\ s[Len(s)] \in Whitespace
    THEN rstrip(SubSeq(s, 1, Len(s) - 1))
    ELSE s

\* str.strip()
strip(s) == rstrip(lstrip(s))

\* Python's "sub in s" on strings
In(sub, s) == \E k \in 0..(Len(s) - Len(sub)) : SubSeq(s, k + 1, k + Len(sub)) = sub

\* a mutant of AnyIn: every substring is required (the "AND" of Task.__str__)
AllIn(subs, stdout) == \A k \in 1..Len(subs) : In(subs[k], strip(stdout))

\* [s for s in subs if s in output.stdout.strip()], as a truth value
AnyIn(subs, stdout) == \E k \in 1..Len(subs) : In(subs[k], strip(stdout))

\* a mutant of Bool: the recipient is not looked at
BoolAlways(s) == s = s

\* bool(x) of a string
Bool(s) == s # ""

\* ---- tasks ----
Task(cmd, expected, retry_out) ==
    [command |-> cmd, expected_output |-> expected, retry_output |-> retry_out]

\* the built-in chain; "files changed" is the character a, "Already up to
\* date." the character b, '' the empty string
DefaultTasks ==
    << Task("git pull origin main", << <<"a">> >>, << <<"b">> >>),
       Task("docker compose build", <<>>, <<>>),
       Task("docker compose --profile prod up -d", << <<>> >>, <<>>) >>

\* no --cmd at all, one --cmd, two --cmd with their --output/--retry-output
TaskLists ==
    { <<>>,
      << Task("plain", <<>>, <<>>) >>,
      << Task("anyof", << <<"a">>, <<"b">> >>, <<>>),
         Task("edge", << <<" ", "a">> >>, <<>>) >>,
      << Task("both", << <<"a">> >>, << <<" ", "b">> >>),
         Task("poll", <<>>, << <<" ", "b">>, <<"a">> >>) >> }

\* ---- the external process ----
\* what one subprocess.run() meets: the program could not be started, or it
\* ran to completion with an exit code and a captured stdout
NotStarted == [started |-> FALSE, returncode |-> 0, stdout |-> <<>>]

Results ==
    {NotStarted} \cup
    [started : {TRUE}, returncode : {0, 1}, stdout : StringsUpTo(MaxOut)]

NoExec == [task |-> 0, res |-> NotStarted, outcome |-> "none"]

\* a mutant of run_command: subprocess.run() without check=True
run_command_unchecked(res) == IF ~res.started THEN "OSError" ELSE "none"

\* run_command()._command: the exception subprocess.run(check=True) raises,
\* "none" when it returns the CompletedProcess
run_command(res) ==
    IF ~res.started THEN "OSError"
    ELSE IF res.returncode # 0 THEN "CalledProcessError"
    ELSE "none"

\* time.sleep(d): the exception raised, "none" when it sleeps.  A negative d
\* is refused with ValueError; so is, with OverflowError, a d above about
\* 9.2e9 seconds, which no explored delay reaches.
time_sleep(d) == IF d < 0 THEN "ValueError" ELSE "none"

\* a mutant of Delay: the exponent counted from 0
DelayFromZero(base, k) == base ^ (k - 1)

\* delay = base_delay ** attempts
Delay(base, k) == base ^ k

\* a mutant of TryBody: the success-substrings are looked for first
TryBodyExpectedFirst(task, res, interval) ==
    IF run_command(res) # "none" THEN run_command(res)
    ELSE IF task.expected_output # <<>> /\ ~AnyIn(task.expected_output, res.stdout)
         THEN "ValueError"
    ELSE IF task.retry_output # <<>> /\ AnyIn(task.retry_output, res.stdout)
         THEN (IF time_sleep(interval) # "none" THEN time_sleep(interval)
               ELSE "continue")
    ELSE IF res.returncode # 0 THEN "ValueError"
    ELSE "return"

\* the body of retry()'s try block: "return", "continue", or the exception
\* that leaves it
TryBody(task, res, interval) ==
    IF run_command(res) # "none" THEN run_command(res)
    ELSE IF task.retry_output # <<>> /\ AnyIn(task.retry_output, res.stdout)
         THEN (IF time_sleep(interval) # "none" THEN time_sleep(interval)
               ELSE "continue")
    ELSE IF task.expected_output # <<>> /\ ~AnyIn(task.expected_output, res.stdout)
         THEN "ValueError"
    ELSE IF res.returncode # 0 THEN "ValueError"
    ELSE "return"

\* a mutant of WhileCond: one pass more
WhileCondInclusive(a, m) == a <= m

\* while attempts < max_attempts
WhileCond(a, m) == a < m

\* a mutant of ContinueAttempts: the counter starts again
ContinueResets(a) == 0

\* "continue": attempts after a pass that met a retry-substring
ContinueAttempts(a) == a

\* a mutant of PollInterval: the wrong argument is slept
PollIntervalBackoff(a) == a.base_delay

\* time.sleep(args.interval) at the end of a cycle: the seconds asked for
PollInterval(a) == a.interval

\* what the sendmail transport raises: "none" when the message is handed over
Transport(ok) == IF ok THEN "none" ELSE "OSError"

\* a mutant of SendEmailCatches: no except clause
SendEmailCatchesNothing(e) == FALSE

\* send_email(), except Exception: the exceptions of the transport it catches
SendEmailCatches(e) == e # "none"

\* send_email() is left by an exception
SendEmailRaises(ok) == Transport(ok) # "none" /\ ~SendEmailCatches(Transport(ok))

\* a sleep that was slept, and none
Slept(at, seconds) == [at |-> at, seconds |-> seconds]
NoSleep == Slept("none", 0)

\* a mutant of ForNext: a task is skipped
ForNextSkip(n) == n + 2

\* for i, task in enumerate(args.tasks): the next index
ForNext(n) == n + 1

VARIABLES
    args,                  \* the parsed configuration
    pc,                    \* where main() is
    i,                     \* index of the for loop (from 1)
    attempts,              \* retry()'s counter
    consecutive_failures,  \* main()'s counter
    exited_by,             \* how the process ended
    \* ---- history ----
    cycle,                 \* number of the current cycle
    execs,                 \* func() calls of the current retry() call
    failures,              \* exceptions caught by the current retry() call
    nochange,              \* "continue" passes of the current retry() call
    backoffs,              \* backoff sleeps of the current retry() call
    callEnd,               \* how the last retry() call ended
    lastExec,              \* the execution of the step just taken, if any
    slept,                 \* the sleep of the step just taken, if any
    trace,                 \* the current cycle's task events
    sendAttempts,          \* send_email() calls
    sendFailures,          \* of these, the ones whose transport failed
    failedCycles,          \* consecutive cycles that ended in an exception
    cycleResult            \* how the last finished cycle ended

vars == << args, pc, i, attempts, consecutive_failures, exited_by, cycle, execs,
           failures, nochange, backoffs, callEnd, lastExec, slept, trace,
           sendAttempts, sendFailures, failedCycles, cycleResult >>

callVars == << attempts, execs, failures, nochange, backoffs, callEnd >>
mailVars == << sendAttempts, sendFailures >>

\* argparse's type=int accepts any integer for --max-attempts and --base-delay
\* and main() checks neither: 0 and -1 are configurations too.  The powers of
\* base_delay stay far below the largest value time.sleep() accepts.  The
\* interval is its default or, type=int checking no sign, -1.
Configs ==
    [ max_attempts : 0..MaxMaxAttempts,
      base_delay : (-1)..MaxBaseDelay,
      interval : {-1, DefaultInterval},
      error_email_recipient : {"", "ops@example.org"},
      exit_on_max_attempts : BOOLEAN,
      tasks : TaskLists ]

Init ==
    /\ args \in Configs
    /\ pc = "startup"
    /\ i = 0
    /\ attempts = 0
    /\ consecutive_failures = 0
    /\ exited_by = "none"
    /\ cycle = 0
    /\ execs = 0
    /\ failures = 0
    /\ nochange = 0
    /\ backoffs = <<>>
    /\ callEnd = "none"
    /\ lastExec = NoExec
    /\ slept = NoSleep
    /\ trace = <<>>
    /\ sendAttempts = 0
    /\ sendFailures = 0
    /\ failedCycles = 0
    /\ cycleResult = "none"

\* the task the for loop is at
task == args.tasks[i]

\* one more execution of task n in the cycle's events
AddExec(tr, n) ==
    IF tr # <<>> /\ tr[Len(tr)] = <<"exec", n>> THEN tr ELSE Append(tr, <<"exec", n>>)

Executed(res, outcome) == [task |-> i, res |-> res, outcome |-> outcome]

\* send_email(): the transport is invoked; its failure is logged and swallowed
send_email(ok) ==
    /\ sendAttempts' = sendAttempts + 1
    /\ sendFailures' = IF ok THEN sendFailures ELSE sendFailures + 1

\* main(), logging setup: the file handler cannot be created, main() returns
StartupLogFailure ==
    /\ pc = "startup"
    /\ pc' = "exited"
    /\ exited_by' = "log_setup"
    /\ UNCHANGED << args, i, consecutive_failures, cycle, trace, failedCycles,
                    cycleResult >>
    /\ UNCHANGED callVars
    /\ lastExec' = NoExec
    /\ slept' = NoSleep
    /\ UNCHANGED mailVars

\* main() up to the first pass of "while True": the default chain replaces
\* an empty task list, the counter starts at 0
StartupOK ==
    /\ pc = "startup"
    /\ args' = IF args.tasks = <<>> THEN [args EXCEPT !.tasks = DefaultTasks] ELSE args
    /\ consecutive_failures' = 0
    /\ pc' = "for"
    /\ i' = 1
    /\ cycle' = 1
    /\ UNCHANGED << exited_by, trace, failedCycles, cycleResult >>
    /\ UNCHANGED callVars
    /\ lastExec' = NoExec
    /\ slept' = NoSleep
    /\ UNCHANGED mailVars

\* the for loop has a next task: retry() is called and sets attempts = 0
CallRetry ==
    /\ pc = "for"
    /\ i <= Len(args.tasks)
    /\ pc' = "while"
    /\ attempts' = 0
    /\ execs' = 0
    /\ failures' = 0
    /\ nochange' = 0
    /\ backoffs' = <<>>
    /\ callEnd' = "running"
    /\ trace' = Append(trace, <<"start", i>>)
    /\ lastExec' = NoExec
    /\ slept' = NoSleep
    /\ UNCHANGED << args, i, consecutive_failures, exited_by, cycle, failedCycles,
                    cycleResult >>
    /\ UNCHANGED mailVars

\* the for loop is exhausted: consecutive_failures = 0
CycleSuccess ==
    /\ pc = "for"
    /\ i > Len(args.tasks)
    /\ consecutive_failures' = 0
    /\ pc' = "sleep"
    /\ cycleResult' = "success"
    /\ failedCycles' = 0
    /\ UNCHANGED << args, i, exited_by, cycle, trace >>
    /\ UNCHANGED callVars
    /\ lastExec' = NoExec
    /\ slept' = NoSleep
    /\ UNCHANGED mailVars

\* retry(), the while condition is true: the try block is entered
RetryWhile ==
    /\ pc = "while"
    /\ WhileCond(attempts, args.max_attempts)
    /\ pc' = "try"
    /\ lastExec' = NoExec
    /\ slept' = NoSleep
    /\ UNCHANGED << args, i, attempts, consecutive_failures, exited_by, cycle, execs,
                    failures, nochange, backoffs, callEnd, trace, failedCycles,
                    cycleResult >>
    /\ UNCHANGED mailVars

\* retry(), the try block reaches "return"
RetryReturn(res) ==
    /\ pc = "try"
    /\ TryBody(task, res, args.interval) = "return"
    /\ pc' = "for"
    /\ i' = ForNext(i)
    /\ execs' = execs + 1
    /\ callEnd' = "return"
    /\ lastExec' = Executed(res, "return")
    /\ slept' = NoSleep
    /\ trace' = Append(AddExec(trace, i), <<"ok", i>>)
    /\ UNCHANGED << args, attempts, consecutive_failures, exited_by, cycle, failures,
                    nochange, backoffs, failedCycles, cycleResult >>
    /\ UNCHANGED mailVars

\* retry(), the try block sleeps the interval and continues
RetryContinue(res) ==
    /\ pc = "try"
    /\ nochange < MaxNoChange
    /\ TryBody(task, res, args.interval) = "continue"
    /\ attempts' = ContinueAttempts(attempts)
    /\ execs' = execs + 1
    /\ nochange' = nochange + 1
    /\ lastExec' = Executed(res, "continue")
    /\ slept' = Slept("retry_output", args.interval)
    /\ trace' = AddExec(trace, i)
    /\ pc' = "while"
    /\ UNCHANGED << args, i, consecutive_failures, exited_by, cycle,
                    failures, backoffs, callEnd, failedCycles, cycleResult >>
    /\ UNCHANGED mailVars

\* retry(), the try block ends in the except clause: the counter, the delay,
\* the log line and the sleep; a sleep that raises leaves retry() with its
\* exception
RetryExcept(res) ==
    /\ pc = "try"
    /\ TryBody(task, res, args.interval) \notin {"return", "continue"}
    /\ attempts' = attempts + 1
    /\ execs' = execs + 1
    /\ failures' = failures + 1
    /\ lastExec' = Executed(res, TryBody(task, res, args.interval))
    /\ LET delay == Delay(args.base_delay, attempts + 1)
       IN  IF time_sleep(delay) # "none"
           THEN /\ pc' = "except_Exception"
                /\ callEnd' = time_sleep(delay)
                /\ backoffs' = backoffs
                /\ slept' = NoSleep
                /\ trace' = Append(AddExec(trace, i), <<"fail", i>>)
           ELSE /\ pc' = "while"
                /\ callEnd' = callEnd
                /\ backoffs' = Append(backoffs, delay)
                /\ slept' = Slept("backoff", delay)
                /\ trace' = AddExec(trace, i)
    /\ UNCHANGED << args, i, consecutive_failures, exited_by, cycle, nochange,
                    failedCycles, cycleResult >>
    /\ UNCHANGED mailVars

\* retry(), the while condition is false: raise RuntimeError
RetryExhausted ==
    /\ pc = "while"
    /\ ~WhileCond(attempts, args.max_attempts)
    /\ pc' = "except_RuntimeError"
    /\ callEnd' = "RuntimeError"
    /\ trace' = Append(trace, <<"fail", i>>)
    /\ lastExec' = NoExec
    /\ slept' = NoSleep
    /\ UNCHANGED << args, i, attempts, consecutive_failures, exited_by, cycle, execs,
                    failures, nochange, backoffs, failedCycles, cycleResult >>
    /\ UNCHANGED mailVars

\* main(), except RuntimeError: log, mail when a recipient is set, raise again
HandleRuntimeError(ok) ==
    /\ pc = "except_RuntimeError"
    /\ IF Bool(args.error_email_recipient)
       THEN send_email(ok)
       ELSE UNCHANGED mailVars
    /\ pc' = "exited"
    /\ exited_by' = IF Bool(args.error_email_recipient) /\ SendEmailRaises(ok)
                    THEN "send_email_193"
                    ELSE "RuntimeError_194"
    /\ failedCycles' = failedCycles + 1
    /\ cycleResult' = "raised"
    /\ UNCHANGED << args, i, consecutive_failures, cycle, trace >>
    /\ UNCHANGED callVars
    /\ lastExec' = NoExec
    /\ slept' = NoSleep

\* main(), except Exception: count the cycle; at the threshold mail when a
\* recipient is set and raise when exit_on_max_attempts is set
HandleException(ok) ==
    /\ pc = "except_Exception"
    /\ consecutive_failures' = consecutive_failures + 1
    /\ failedCycles' = failedCycles + 1
    /\ LET threshold == consecutive_failures + 1 >= args.max_attempts
           mail == threshold /\ Bool(args.error_email_recipient)
       IN  /\ IF mail THEN send_email(ok) ELSE UNCHANGED mailVars
           /\ cycleResult' = IF mail THEN "notified"
                             ELSE IF threshold THEN "threshold" ELSE "failed"
           /\ IF mail /\ SendEmailRaises(ok)
              THEN pc' = "exited" /\ exited_by' = "send_email_201"
              ELSE IF threshold /\ args.exit_on_max_attempts
              THEN pc' = "exited" /\ exited_by' = "RuntimeError_204"
              ELSE pc' = "sleep" /\ exited_by' = exited_by
    /\ UNCHANGED << args, i, cycle, trace >>
    /\ UNCHANGED callVars
    /\ lastExec' = NoExec
    /\ slept' = NoSleep

\* main(), time.sleep(args.interval) and the next pass of "while True"
PollSleep ==
    /\ pc = "sleep"
    /\ cycle < MaxCycles
    /\ IF time_sleep(PollInterval(args)) # "none"
       THEN /\ pc' = "exited"
            /\ exited_by' = "ValueError_206"
            /\ slept' = NoSleep
            /\ UNCHANGED << i, cycle, trace >>
       ELSE /\ pc' = "for"
            /\ i' = 1
            /\ cycle' = cycle + 1
            /\ trace' = <<>>
            /\ slept' = Slept("poll", PollInterval(args))
            /\ exited_by' = exited_by
    /\ UNCHANGED << args, consecutive_failures, failedCycles, cycleResult >>
    /\ UNCHANGED callVars
    /\ lastExec' = NoExec
    /\ UNCHANGED mailVars

Next ==
    \/ StartupLogFailure
    \/ StartupOK
    \/ CallRetry
    \/ CycleSuccess
    \/ RetryWhile
    \/ \E res \in Results : RetryReturn(res)
    \/ \E res \in Results : RetryContinue(res)
    \/ \E res \in Results : RetryExcept(res)
    \/ RetryExhausted
    \/ \E ok \in BOOLEAN : HandleRuntimeError(ok)
    \/ \E ok \in BOOLEAN : HandleException(ok)
    \/ PollSleep

Spec == Init /\ [][Next]_vars

\* the process is one thread that takes its next step whenever it has one,
\* and every started command ends: subprocess.run() returns or raises
FairSpec == Spec /\ WF_vars(Next)

(***************************************************************************)
(* Properties                                                              *)
(***************************************************************************)

\* base ** k by repeated multiplication
RECURSIVE Pow(_, _)
Pow(base, k) == IF k = 0 THEN 1 ELSE base * Pow(base, k - 1)

\* some string of subs occurs in s
Occurs(subs, s) == \E k \in DOMAIN subs : In(subs[k], s)

\* the configurations the watcher documents: max_attempts >= 1, base_delay >= 2
\* and an interval that can be slept
DocumentedConfig ==
    args.max_attempts >= 1 /\ args.base_delay >= 2 /\ args.interval >= 0

\* a retry() call is over
CallOver == callEnd \in {"return", "RuntimeError", "ValueError"}

\* C1: for max_attempts >= 1, a retry() call all of whose executions were
\* failures executes the command exactly max_attempts times and then raises
\* the terminal failure (RuntimeError); it never executes it once more.
C1_FailingTaskExhaustsAttempts ==
    (args.max_attempts >= 1 /\ execs = failures) =>
        /\ execs <= args.max_attempts
        /\ CallOver => (callEnd = "RuntimeError" /\ execs = args.max_attempts)

\* C2: an execution whose stdout contains a retry-substring of its task
\* leaves retry()'s attempt counter unchanged, whatever the exit code
\* (stated for the documented configurations).
C2_RetryMatchKeepsAttempts ==
    [][ ( /\ DocumentedConfig
          /\ pc = "try"
          /\ execs' = execs + 1
          /\ lastExec'.res.started
          /\ Occurs(task.retry_output, lastExec'.res.stdout) )
        => attempts' = attempts ]_vars

\* C3: the cycle failure counter is 0 after a cycle in which all tasks
\* succeeded, 0 after a notification sent at the threshold when the process
\* continues, and never above max_attempts when a cycle starts.
C3_CounterResets ==
    /\ (pc = "sleep" /\ cycleResult = "success") => consecutive_failures = 0
    /\ (pc = "sleep" /\ cycleResult = "notified" /\ ~args.exit_on_max_attempts)
           => consecutive_failures = 0
    /\ (pc = "for" /\ i = 1) => consecutive_failures <= args.max_attempts

\* C4: the orchestrator's handling of a terminal failure of retry() adds
\* exactly one to the cycle failure counter (stated for the documented
\* configurations).
C4_TerminalFailureCountsOnce ==
    [][ (DocumentedConfig /\ pc = "except_RuntimeError" /\ pc' # pc)
        => consecutive_failures' = consecutive_failures + 1 ]_vars

\* C5: once the polling loop is entered the process ends only with
\* exit_on_max_attempts set and max_attempts consecutive failed cycles
\* (stated for the documented configurations).
C5_ExitsOnlyAtThreshold ==
    (DocumentedConfig /\ pc = "exited" /\ exited_by # "log_setup") =>
        (args.exit_on_max_attempts /\ failedCycles >= args.max_attempts)

\* C6: a failure email is sent only when max_attempts consecutive cycles
\* have failed (stated for the documented configurations).
C6_MailOnlyAtThreshold ==
    [][ (DocumentedConfig /\ sendAttempts' > sendAttempts)
        => failedCycles' >= args.max_attempts ]_vars

\* C7: within a cycle the first task started is task 1, task n+1 is started
\* directly after task n's retry() returned, a task is executed only inside
\* its own retry() call, and nothing follows a failed retry() call.
C7_TasksInDeclarationOrder ==
    \A p \in 1..Len(trace) :
        LET e == trace[p]
            n == e[2]
        IN  /\ e[1] = "start" =>
                  IF p = 1 THEN n = 1 ELSE trace[p - 1] = <<"ok", n - 1>>
            /\ e[1] = "exec" => (p > 1 /\ trace[p - 1] = <<"start", n>>)
            /\ e[1] = "ok" => (p > 1 /\ trace[p - 1] = <<"exec", n>>)
            /\ e[1] = "fail" =>
                  /\ p = Len(trace)
                  /\ p > 1
                  /\ trace[p - 1] \in {<<"start", n>>, <<"exec", n>>}

\* task 2 was started after task 1 and its retry() call failed
C7_Witness ==
    /\ Len(trace) >= 5
    /\ trace[1] = <<"start", 1>>
    /\ trace[Len(trace)] = <<"fail", 2>>
    /\ callEnd = "RuntimeError"

\* C8: with an empty recipient send_email() is never called, so the mail
\* transport is never invoked and no transport failure is ever met.
C8_NoRecipientNoSend ==
    args.error_email_recipient = "" => (sendAttempts = 0 /\ sendFailures = 0)

\* both handlers of main() have run their mail step without a recipient:
\* the threshold was reached in a cycle after a counted failed cycle
C8_Witness ==
    /\ args.error_email_recipient = ""
    /\ cycleResult \in {"threshold", "raised"}
    /\ consecutive_failures >= 1

\* the outcome of the last execution, in the classifier's terms
Outcome ==
    CASE lastExec.outcome = "return" -> "Success"
      [] lastExec.outcome = "continue" -> "RetryableNoChange"
      [] OTHER -> "Failure"

\* the outcome C9 states, for a stdout as the watcher looks at it
Classified(t, returncode, stdout) ==
    IF t.expected_output # <<>> /\ ~Occurs(t.expected_output, stdout) THEN "Failure"
    ELSE IF returncode # 0 THEN "Failure"
    ELSE "Success"

\* C9 as stated: substrings are looked for in the captured stdout (stated
\* for the documented configurations).
C9_OutcomeOnCapturedStdout ==
    LET t == args.tasks[lastExec.task]
        r == lastExec.res
    IN  ( /\ DocumentedConfig
          /\ lastExec.task # 0
          /\ r.started
          /\ ~Occurs(t.retry_output, r.stdout) )
            => Outcome = Classified(t, r.returncode, r.stdout)

\* C9, amended: substrings are looked for in the captured stdout stripped of
\* leading and trailing whitespace.
C9_OutcomeOnStrippedStdout ==
    LET t == args.tasks[lastExec.task]
        r == lastExec.res
    IN  (lastExec.task # 0 /\ r.started /\ ~Occurs(t.retry_output, strip(r.stdout)))
            => Outcome = Classified(t, r.returncode, strip(r.stdout))

\* a task with two success-substrings succeeded on a stdout holding one
C9_Witness ==
    /\ lastExec.task # 0
    /\ lastExec.res.started
    /\ lastExec.res.returncode = 0
    /\ Len(args.tasks[lastExec.task].expected_output) = 2
    /\ ~In(<<"b">>, lastExec.res.stdout)
    /\ lastExec.outcome = "return"

CycleStart == pc = "for" /\ i = 1 /\ trace = <<>>

\* C11: every cycle but the first begins directly after a sleep of the polling
\* interval (main()'s time.sleep(args.interval)), whatever the outcome of the
\* cycle before it; no cycle begins without that sleep.
C11_CycleStartsAfterPollSleep ==
    (CycleStart /\ cycle >= 2) => slept = Slept("poll", args.interval)

\* a cycle that ended in a counted failure with a notification is followed,
\* after the sleep, by the next cycle
C11_Witness ==
    /\ CycleStart
    /\ cycle >= 2
    /\ cycleResult = "notified"
    /\ slept = Slept("poll", args.interval)


\* the exploration stops here: the last explored cycle is over and the
\* process is about to sleep
Horizon == pc = "sleep" /\ cycle = MaxCycles

\* C12: a retry() call does not loop forever on failures: with finitely many
\* no-change outcomes (at most MaxNoChange here) a running call eventually
\* returns or raises the terminal failure (RuntimeError); a no-change outcome
\* raises nothing and leaves the call running with its counter as it was, so
\* an endless run of them keeps the call running.  A run that stops at the
\* horizon is not held against the property: one that refutes it ends with
\* the process.
C12_RetryCallReturnsOrFailsTerminally ==
    /\ (callEnd = "running") ~> (callEnd \in {"return", "RuntimeError"} \/ Horizon)
    /\ [][nochange' = nochange + 1 =>
             (callEnd' = "running" /\ pc' = "while" /\ attempts' = attempts)]_vars


\* a handler of main() sends the notification successfully and leaves main()
\* at p, the counter at c and the process ended by e
SuccessfulSend(p, c, e) ==
    /\ HandleRuntimeError(TRUE) \/ HandleException(TRUE)
    /\ sendAttempts' = sendAttempts + 1
    /\ pc' = p
    /\ consecutive_failures' = c
    /\ exited_by' = e

\* C13: a notification whose mail transport fails is swallowed: the step
\* leaves consecutive_failures, and whether the process goes on or ends,
\* exactly as a successful send from the same state leaves them.
C13_TransportFailureIsSwallowed ==
    [][sendFailures' = sendFailures + 1 =>
         \E p \in {"sleep", "exited"},
            c \in {consecutive_failures, consecutive_failures + 1},
            e \in {"none", "RuntimeError_194", "RuntimeError_204"} :
              /\ pc' = p
              /\ consecutive_failures' = c
              /\ exited_by' = e
              /\ ENABLED SuccessfulSend(p, c, e)]_vars

\* the transport failed at the threshold and the process went on to its sleep
C13_Witness ==
    /\ sendFailures >= 1
    /\ cycleResult = "notified"
    /\ pc = "sleep"
    /\ consecutive_failures >= 1


\* C14: with base_delay < 2 the configuration is rejected at startup: the
\* process ends before the polling loop is entered and no task command is
\* ever executed.
C14_LowBaseDelayRejectedAtStartup ==
    args.base_delay < 2 =>
        /\ pc \in {"startup", "exited"}
        /\ cycle = 0
        /\ execs = 0
        /\ lastExec = NoExec


\* C15: a failure increments attempts and, when attempts has reached
\* max_attempts, the terminal failure is raised without a sleep; the backoff
\* is slept only when another attempt follows.  So a call all of whose
\* executions fail has slept max_attempts - 1 times when it raises the
\* terminal failure (2 and 4 for max_attempts = 3, base_delay = 2).  Stated
\* for the documented configurations.
C15_NoSleepBeforeTerminalFailure ==
    /\ [][(DocumentedConfig /\ failures' = failures + 1) =>
             /\ attempts' = attempts + 1
             /\ attempts' >= args.max_attempts => slept' = NoSleep
             /\ attempts' < args.max_attempts =>
                    slept' = Slept("backoff", Pow(args.base_delay, attempts'))]_vars
    /\ []((DocumentedConfig /\ callEnd = "RuntimeError" /\ execs = failures) =>
             Len(backoffs) = args.max_attempts - 1)


\* the step just taken executed the command
Executes == execs' = execs + 1

\* the no-change step: one interval slept, the counter as it was, the call
\* still running and about to pass the while test for the same task
NoChangeStep ==
    /\ slept' = Slept("retry_output", args.interval)
    /\ attempts' = attempts
    /\ callEnd' = "running"
    /\ pc' = "while"
    /\ i' = i
    /\ attempts' < args.max_attempts

C17_AttemptsMonotoneAndBounded ==
    /\ [](attempts \in 0..args.max_attempts /\ failures <= args.max_attempts)
    /\ [][callEnd = "running" => attempts' >= attempts]_vars
    /\ [][nochange' = nochange + 1 => attempts' = attempts]_vars

\* a call that met a no-change outcome and max_attempts failures, and ended
C17_Witness ==
    /\ callEnd = "RuntimeError"
    /\ nochange >= 1
    /\ failures >= 2
    /\ failures = args.max_attempts
    /\ attempts = args.max_attempts

\* the execution of the step just taken raised in run_command()
ExecutionRaised == ~lastExec'.res.started \/ lastExec'.res.returncode # 0

\* C18 as stated: retry() returns only directly after an execution that
\* exited 0, whose captured stdout contained no retry-substring and, when
\* success-substrings are declared, at least one of them; an execution that
\* raised (the command could not be started, or exited nonzero) is no
\* success and consumes one attempt.
C18_ReturnOnlyAfterCleanCapturedStdout ==
    /\ [][(callEnd = "running" /\ callEnd' = "return") =>
             /\ Executes
             /\ lastExec'.res.started
             /\ lastExec'.res.returncode = 0
             /\ ~Occurs(task.retry_output, lastExec'.res.stdout)
             /\ task.expected_output # <<>> =>
                    Occurs(task.expected_output, lastExec'.res.stdout)]_vars
    /\ [][(Executes /\ ExecutionRaised) =>
             (callEnd' # "return" /\ attempts' = attempts + 1)]_vars

\* C18, amended: the retry-substrings are looked for in the stripped stdout.
C18_ReturnOnlyAfterCleanStrippedStdout ==
    /\ [][(callEnd = "running" /\ callEnd' = "return") =>
             /\ Executes
             /\ lastExec'.res.started
             /\ lastExec'.res.returncode = 0
             /\ ~Occurs(task.retry_output, strip(lastExec'.res.stdout))
             /\ task.expected_output # <<>> =>
                    Occurs(task.expected_output, lastExec'.res.stdout)]_vars
    /\ [][(Executes /\ ExecutionRaised) =>
             (callEnd' # "return" /\ attempts' = attempts + 1)]_vars

\* a call for a task with success- and retry-substrings returned after an
\* earlier execution had raised and consumed an attempt
C18_Witness ==
    /\ callEnd = "return"
    /\ lastExec.outcome = "return"
    /\ failures >= 1
    /\ attempts = failures
    /\ args.tasks[lastExec.task].expected_output # <<>>
    /\ args.tasks[lastExec.task].retry_output # <<>>

\* C19: with max_attempts <= 0 a retry() call raises the terminal failure at
\* once: the command is never executed and nothing is slept; the process,
\* once past startup, ends in its first cycle at its first task.
C19_NoAttemptsNoExecution ==
    args.max_attempts <= 0 =>
        /\ execs = 0
        /\ lastExec = NoExec
        /\ backoffs = <<>>
        /\ slept = NoSleep
        /\ cycle <= 1
        /\ callEnd \in {"none", "running", "RuntimeError"}
        /\ callEnd = "running" => (pc = "while" /\ ~(attempts < args.max_attempts))
        /\ CallOver =>
              /\ i = 1
              /\ trace = << <<"start", 1>>, <<"fail", 1>> >>
              /\ pc \in {"except_RuntimeError", "exited"}
              /\ pc = "exited" => exited_by \in {"RuntimeError_194"}

\* the configuration was accepted and the first cycle failed on its first
\* task with no execution
C19_Witness ==
    /\ args.max_attempts <= 0
    /\ cycle = 1
    /\ pc = "exited"
    /\ exited_by = "RuntimeError_194"
    /\ callEnd = "RuntimeError"
    /\ execs = 0
    /\ trace = << <<"start", 1>>, <<"fail", 1>> >>

====
